---- MODULE Spec2Model ----
(***************************************************************************)
(* A model of collagraph-lsp: the script-region classifier and the         *)
(* position/offset translation of completions.py, the completion pipeline  *)
(* get_python_completions, and the document handlers of server.py.         *)
(*                                                                         *)
(* A text is a sequence of one-character strings.  Offsets are 0-based as  *)
(* in Python; TLA+ sequences are 1-based, so the character at offset o is  *)
(* text[o + 1].                                                            *)
(***************************************************************************)
EXTENDS Integers, Sequences, FiniteSets, TLC

VARIABLES
    source,      \* the document text handed to analyze_context
    position,    \* the Position handed to analyze_context: [line, character]
    context,     \* the CompletionContext returned, or NoContext before the call
    offset,      \* the result of a direct position_to_offset call, or -1
    pc,          \* where the caller is: "start" | "analyzed" | "converted" |
                 \* "completed"
    tmpFiles,    \* the temporary files that exist on disk
    created,     \* how many temporary files have been created so far
    fault,       \* the failure the last get_python_completions call met
    items,       \* the list the last get_python_completions call returned
    raised,      \* whether the last get_python_completions call raised
    workspace,   \* the server's workspace: each URI's text, or Absent
    published,   \* each URI's most recently published diagnostics, or Never
    failed,      \* the URIs whose latest validation or clearing run failed
    last,        \* the event the server handled last, and its outcome
    diagnostics,     \* the records the linter handed to the conversion loop
    lsp_diagnostics  \* the LSP diagnostics the loop built, or NotConverted

regionVars == <<source, position, context, offset, pc>>
completionVars == <<tmpFiles, created, fault, items, raised>>
serverVars == <<workspace, published, failed, last>>
conversionVars == <<diagnostics, lsp_diagnostics>>
vars == <<regionVars, completionVars, serverVars, conversionVars>>

(***************************************************************************)
(* Bounds of the model.                                                    *)
(***************************************************************************)
MaxLine == 2
MaxChar == 40
MaxCalls == 2
MaxDocLen == 2
MaxDiags == 3

(***************************************************************************)
(* Characters and the literals of the script pattern                       *)
(* r"<script[^>]*>(.*?)</script>" (completions.py:51).                     *)
(***************************************************************************)
NL == "\n"
GT == ">"

OpenLiteral == <<"<", "s", "c", "r", "i", "p", "t">>
CloseLiteral == <<"<", "/", "s", "c", "r", "i", "p", "t", ">">>

\* The tags as a document writes them.
OpenTagPlain == OpenLiteral \o <<GT>>
OpenTagAttr == OpenLiteral \o <<" ", "t", GT>>
OpenLiteralUpper == <<"<", "S", "C", "R", "I", "P", "T">>
CloseLiteralUpper == <<"<", "/", "S", "C", "R", "I", "P", "T", ">">>
OpenTagUpper == OpenLiteralUpper \o <<GT>>
CloseTagPlain == CloseLiteral
CloseTagUpper == CloseLiteralUpper

(***************************************************************************)
(* Sequence helpers.                                                       *)
(***************************************************************************)
Min(a, b) == IF a <= b THEN a ELSE b

\* text[i ..] starts with lit (i is a 1-based index).
StartsWithAt(text, i, lit) ==
    /\ i >= 1
    /\ i + Len(lit) - 1 <= Len(text)
    /\ \A k \in 1..Len(lit) : text[i + k - 1] = lit[k]

\* The least element of a non-empty set of integers.
Least(S) == CHOOSE x \in S : \A y \in S : x <= y

(***************************************************************************)
(* position_to_offset (completions.py:62-67).                              *)
(***************************************************************************)
RECURSIVE Split(_)
\* source.split("\n"): the lines of the text, separators removed; always at
\* least one line.
Split(text) ==
    LET nls == {i \in 1..Len(text) : text[i] = NL}
    IN  IF nls = {} THEN <<text>>
        ELSE LET i == Least(nls)
             IN  <<SubSeq(text, 1, i - 1)>> \o Split(SubSeq(text, i + 1, Len(text)))

RECURSIVE SumLens(_, _)
\* sum(len(line) + 1 for line in lines[:n])
SumLens(lines, n) ==
    IF n = 0 THEN 0 ELSE SumLens(lines, n - 1) + Len(lines[n]) + 1

\* position_to_offset with the line separators left out of the sum.
position_to_offset_noSeparator(text, pos) ==
    LET lines == Split(text)
        taken == Min(pos.line, Len(lines))
    IN  SumLens(lines, taken) - taken + pos.character

position_to_offset(text, pos) ==
    LET lines == Split(text)
        taken == Min(pos.line, Len(lines))     \* lines[: position.line]
    IN  SumLens(lines, taken) + pos.character

(***************************************************************************)
(* re.finditer(script_pattern, source, re.DOTALL) (completions.py:51-52).  *)
(* A match is [start0, start1, end1, stop]: the 0-based offsets of the     *)
(* match's start, of group 1's start and end, and of the match's end.      *)
(***************************************************************************)
NoMatch == [start0 |-> -1, start1 |-> -1, end1 |-> -1, stop |-> -1]

\* The greatest element of a non-empty set of integers.
Greatest(S) == CHOOSE x \in S : \A y \in S : x >= y

\* MatchAt with a greedy group, (.*) for (.*?): the content runs to the last
\* closing tag.
MatchAt_greedy(text, i) ==
    IF ~StartsWithAt(text, i, OpenLiteral) THEN NoMatch
    ELSE LET gts == {j \in (i + Len(OpenLiteral))..Len(text) : text[j] = GT}
         IN  IF gts = {} THEN NoMatch
             ELSE LET g == Least(gts)
                      cls == {k \in (g + 1)..Len(text) :
                                 StartsWithAt(text, k, CloseLiteral)}
                  IN  IF cls = {} THEN NoMatch
                      ELSE LET c == Greatest(cls)
                           IN  [start0 |-> i - 1,
                                start1 |-> g,
                                end1 |-> c - 1,
                                stop |-> c - 1 + Len(CloseLiteral)]

\* MatchAt with the closing tag optional, (</script>|$): an unterminated tag
\* is closed at the end of the text.
MatchAt_closeAtEnd(text, i) ==
    IF ~StartsWithAt(text, i, OpenLiteral) THEN NoMatch
    ELSE LET gts == {j \in (i + Len(OpenLiteral))..Len(text) : text[j] = GT}
         IN  IF gts = {} THEN NoMatch
             ELSE LET g == Least(gts)
                      cls == {k \in (g + 1)..Len(text) :
                                 StartsWithAt(text, k, CloseLiteral)}
                  IN  IF cls = {}
                      THEN [start0 |-> i - 1, start1 |-> g,
                            end1 |-> Len(text), stop |-> Len(text)]
                      ELSE LET c == Least(cls)
                           IN  [start0 |-> i - 1,
                                start1 |-> g,
                                end1 |-> c - 1,
                                stop |-> c - 1 + Len(CloseLiteral)]

\* The match of the pattern that starts at 1-based index i, or NoMatch.
\* "<script" matches literally (no re.IGNORECASE); [^>]* is greedy but must be
\* followed by ">", so it ends at the first ">" after the literal; (.*?) is
\* lazy, so it ends at the first "</script>" at or after the end of the
\* opening tag.
MatchAt(text, i) ==
    IF ~StartsWithAt(text, i, OpenLiteral) THEN NoMatch
    ELSE LET gts == {j \in (i + Len(OpenLiteral))..Len(text) : text[j] = GT}
         IN  IF gts = {} THEN NoMatch
             ELSE LET g == Least(gts)
                      cls == {k \in (g + 1)..Len(text) :
                                 StartsWithAt(text, k, CloseLiteral)}
                  IN  IF cls = {} THEN NoMatch
                      ELSE LET c == Least(cls)
                           IN  [start0 |-> i - 1,
                                start1 |-> g,          \* 0-based offset after ">"
                                end1 |-> c - 1,        \* 0-based offset of "<"
                                stop |-> c - 1 + Len(CloseLiteral)]

RECURSIVE FindIter(_, _)
\* The non-overlapping matches found scanning from 1-based index from.
FindIter(text, from) ==
    LET starts == {i \in from..Len(text) : MatchAt(text, i) # NoMatch}
    IN  IF starts = {} THEN <<>>
        ELSE LET m == MatchAt(text, Least(starts))
             IN  <<m>> \o FindIter(text, m.stop + 1)

(***************************************************************************)
(* is_in_script_region (completions.py:49-59).                             *)
(***************************************************************************)
\* is_in_script_region testing the whole match, match.start() and
\* match.end(), instead of group 1.
is_in_script_region_wholeMatch(text, pos) ==
    LET matches == FindIter(text, 1)
        off == position_to_offset(text, pos)
    IN  \E n \in 1..Len(matches) :
            matches[n].start0 <= off /\ off <= matches[n].stop

is_in_script_region(text, pos) ==
    LET matches == FindIter(text, 1)
        off == position_to_offset(text, pos)
    IN  \E n \in 1..Len(matches) :
            matches[n].start1 <= off /\ off <= matches[n].end1

(***************************************************************************)
(* analyze_context (completions.py:27-46).                                 *)
(***************************************************************************)
NoContext == [is_python_code |-> "none"]

analyze_context(text, pos) ==
    IF is_in_script_region(text, pos)
    THEN [is_python_code |-> TRUE, full_source |-> text, original_position |-> pos]
    ELSE [is_python_code |-> FALSE, full_source |-> text, original_position |-> pos]

(***************************************************************************)
(* get_python_completions (completions.py:70-138) and                      *)
(* map_jedi_type_to_lsp (completions.py:141-153).                          *)
(*                                                                         *)
(* The collaborators (the temporary file, construct_ast, ast.unparse and   *)
(* jedi) are the environment: a call meets at most one failure, named by   *)
(* flt, and the engine answers with a list of completions.                 *)
(***************************************************************************)
Faults == {"none", "tmp_create", "tmp_write", "construct_ast", "unparse", "engine"}

\* What jedi may answer: completions with a name and a jedi type.
EngineAnswers ==
    { <<>>,
      <<[name |-> "os", type |-> "module"]>>,
      <<[name |-> "path", type |-> "instance"], [name |-> "f", type |-> "function"]>> }

NoItems == <<"no value">>

map_jedi_type_to_lsp(jedi_type) ==
    CASE jedi_type = "module" -> "Module"
      [] jedi_type = "class" -> "Class"
      [] jedi_type = "function" -> "Function"
      [] jedi_type = "param" -> "Variable"
      [] jedi_type = "path" -> "File"
      [] jedi_type = "keyword" -> "Keyword"
      [] jedi_type = "property" -> "Property"
      [] jedi_type = "statement" -> "Variable"
      [] OTHER -> "Text"

\* The loop of completions.py:115-127.
ConvertCompletions(answer) ==
    [n \in 1..Len(answer) |->
        [label |-> answer[n].name,
         kind |-> map_jedi_type_to_lsp(answer[n].type),
         insert_text |-> answer[n].name,
         sort_text |-> answer[n].name]]

\* get_python_completions whose handler catches only the collaborator's
\* SyntaxError: a failure of ast.unparse or of the engine escapes.
get_python_completions_narrowExcept(ctx, flt, answer, files, name) ==
    IF ~ctx.is_python_code
    THEN [items |-> <<>>, raised |-> FALSE, files |-> files]
    ELSE IF flt = "tmp_create"
    THEN [items |-> NoItems, raised |-> TRUE, files |-> files]
    ELSE IF flt = "tmp_write"
    THEN [items |-> NoItems, raised |-> TRUE, files |-> files \cup {name}]
    ELSE IF flt = "construct_ast"
    THEN [items |-> <<>>, raised |-> FALSE, files |-> (files \cup {name}) \ {name}]
    ELSE IF flt \in {"unparse", "engine"}
    THEN [items |-> NoItems, raised |-> TRUE, files |-> (files \cup {name}) \ {name}]
    ELSE [items |-> ConvertCompletions(answer), raised |-> FALSE,
          files |-> (files \cup {name}) \ {name}]

\* The outcome of one call: the list returned (NoItems when the call
\* raises), whether it raised, and the temporary files left on disk.  name
\* is the fresh name NamedTemporaryFile picks.
get_python_completions(ctx, flt, answer, files, name) ==
    IF ~ctx.is_python_code
    THEN \* completions.py:85-86
         [items |-> <<>>, raised |-> FALSE, files |-> files]
    ELSE IF flt = "tmp_create"
    THEN \* NamedTemporaryFile raises (line 89): outside the try, no file
         [items |-> NoItems, raised |-> TRUE, files |-> files]
    ELSE IF flt = "tmp_write"
    THEN \* tmp_file.write raises (line 90): outside the try; the with block
         \* closes the file, which delete=False keeps; tmp_path is not bound
         [items |-> NoItems, raised |-> TRUE, files |-> files \cup {name}]
    ELSE IF flt \in {"construct_ast", "unparse", "engine"}
    THEN \* lines 96-127 raise inside the try: except Exception returns [],
         \* finally unlinks the file
         [items |-> <<>>, raised |-> FALSE, files |-> (files \cup {name}) \ {name}]
    ELSE \* lines 96-129, then finally unlinks the file
         [items |-> ConvertCompletions(answer), raised |-> FALSE,
          files |-> (files \cup {name}) \ {name}]

(***************************************************************************)
(* server.py.  The workspace, the linter, the formatter, the token         *)
(* provider and the client that receives the diagnostics are the           *)
(* environment.  An event meets at most one failure of a collaborator,     *)
(* named by flt: "lookup" (workspace.get_text_document or doc.source),     *)
(* "lint", "format", "tokens" (get_tokens or encode_tokens), "publish".    *)
(***************************************************************************)
\* Values apart from every text and from every list of diagnostics.
Absent == <<"absent">>
Never == <<[never |-> TRUE]>>
\* What a handler without a return statement returns.
None == <<"None">>

CgxUri == <<"a", ".", "c", "g", "x">>
OtherUri == <<"a", ".", "c", "g", "x", ".", "p", "y">>
Uris == {CgxUri, OtherUri}

CgxSuffix == <<".", "c", "g", "x">>

\* str.endswith
EndsWith(s, suffix) ==
    /\ Len(s) >= Len(suffix)
    /\ SubSeq(s, Len(s) - Len(suffix) + 1, Len(s)) = suffix

\* The texts a document may hold: "a" stands for any character that is not a
\* line separator.
DocTexts == UNION {[1..k -> {"a", NL}] : k \in 0..MaxDocLen}

\* The severities the linter reports; the last is outside the closed set.
Severities == <<"error", "warning", "info", "hint", "fatal">>

RECURSIVE LintFrom(_, _)
\* One diagnostic for every non-empty line, from line n (1-based) on.
LintFrom(lines, n) ==
    IF n > Len(lines) THEN <<>>
    ELSE (IF Len(lines[n]) = 0 THEN <<>>
          ELSE <<[line |-> n - 1, column |-> 0,
                  end_line |-> n - 1, end_column |-> Len(lines[n]),
                  message |-> "m",
                  severity |-> Severities[((n - 1) % Len(Severities)) + 1],
                  code |-> "E", source |-> "ruff-cgx"]>>)
         \o LintFrom(lines, n + 1)

\* The linter, a function of the text alone.
lint_cgx_content(content) == LintFrom(Split(content), 1)

RECURSIVE StripTrailingNewlines(_)
StripTrailingNewlines(text) ==
    IF text # <<>> /\ text[Len(text)] = NL
    THEN StripTrailingNewlines(SubSeq(text, 1, Len(text) - 1))
    ELSE text

\* The formatter, a function of the text alone, and idempotent: a non-empty
\* text ends with exactly one line separator.
format_cgx_content(content) ==
    LET body == StripTrailingNewlines(content)
    IN  IF body = <<>> THEN <<>> ELSE body \o <<NL>>

\* The token provider: one token for every non-empty line, and its encoding
\* as five integers a token.
RECURSIVE TokensFrom(_, _)
TokensFrom(lines, n) ==
    IF n > Len(lines) THEN <<>>
    ELSE (IF Len(lines[n]) = 0 THEN <<>>
          ELSE <<[line |-> n - 1, start |-> 0, length |-> Len(lines[n])]>>)
         \o TokensFrom(lines, n + 1)

get_tokens(content) == TokensFrom(Split(content), 1)

RECURSIVE encode_tokens(_)
encode_tokens(tokens) ==
    IF tokens = <<>> THEN <<>>
    ELSE <<tokens[1].line, tokens[1].start, tokens[1].length, 0, 0>>
             \o encode_tokens(Tail(tokens))

\* _severity_to_lsp whose default is the first entry of the mapping.
_severity_to_lsp_defaultError(severity) ==
    CASE severity = "error" -> "Error"
      [] severity = "warning" -> "Warning"
      [] severity = "info" -> "Information"
      [] severity = "hint" -> "Hint"
      [] OTHER -> "Error"

_severity_to_lsp(severity) ==
    CASE severity = "error" -> "Error"
      [] severity = "warning" -> "Warning"
      [] severity = "info" -> "Information"
      [] severity = "hint" -> "Hint"
      [] OTHER -> "Warning"

\* The loop of server.py:87-99.
ToLspDiagnostics(diags) ==
    [n \in 1..Len(diags) |->
        [range |-> [start |-> [line |-> diags[n].line,
                               character |-> diags[n].column],
                    end |-> [line |-> diags[n].end_line,
                             character |-> diags[n].end_column]],
         message |-> diags[n].message,
         severity |-> _severity_to_lsp(diags[n].severity),
         code |-> diags[n].code,
         source |-> diags[n].source]]

\* What a handler did: the notifications it published, the collaborators it
\* called, what it returned, whether an exception escaped it and whether it
\* logged an error.
Outcome(publish, calls, result, escaped, logged) ==
    [publish |-> publish, calls |-> calls, result |-> result,
     escaped |-> escaped, logged |-> logged]

\* validate_document that publishes only when there is something to report.
validate_document_skipEmpty(uri, ws, flt) ==
    IF ~EndsWith(uri, CgxSuffix)
    THEN Outcome(<<>>, <<>>, None, FALSE, FALSE)
    ELSE IF flt = "lookup"
    THEN Outcome(<<>>, <<"get_text_document">>, None, FALSE, TRUE)
    ELSE IF flt = "lint"
    THEN Outcome(<<>>, <<"get_text_document", "lint">>, None, FALSE, TRUE)
    ELSE IF ToLspDiagnostics(lint_cgx_content(ws[uri])) = <<>>
    THEN Outcome(<<>>, <<"get_text_document", "lint">>, None, FALSE, FALSE)
    ELSE IF flt = "publish"
    THEN Outcome(<<>>, <<"get_text_document", "lint", "publish">>, None, FALSE, TRUE)
    ELSE Outcome(<<[uri |-> uri,
                    diagnostics |-> ToLspDiagnostics(lint_cgx_content(ws[uri]))]>>,
                 <<"get_text_document", "lint", "publish">>, None, FALSE, FALSE)

\* validate_document (server.py:63-107); ws is the workspace it reads.
validate_document(uri, ws, flt) ==
    IF ~EndsWith(uri, CgxSuffix)
    THEN \* lines 73-75
         Outcome(<<>>, <<>>, None, FALSE, FALSE)
    ELSE IF flt = "lookup"
    THEN \* lines 78-79 raise; lines 106-107 log
         Outcome(<<>>, <<"get_text_document">>, None, FALSE, TRUE)
    ELSE IF flt = "lint"
    THEN \* line 84 raises
         Outcome(<<>>, <<"get_text_document", "lint">>, None, FALSE, TRUE)
    ELSE IF flt = "publish"
    THEN \* line 103 raises
         Outcome(<<>>, <<"get_text_document", "lint", "publish">>, None, FALSE, TRUE)
    ELSE Outcome(<<[uri |-> uri,
                    diagnostics |-> ToLspDiagnostics(lint_cgx_content(ws[uri]))]>>,
                 <<"get_text_document", "lint", "publish">>, None, FALSE, FALSE)

\* did_close (server.py:131-139): no file-kind check and no try.
did_close(uri, flt) ==
    IF flt = "publish"
    THEN Outcome(<<>>, <<"publish">>, None, TRUE, FALSE)
    ELSE Outcome(<<[uri |-> uri, diagnostics |-> <<>>]>>, <<"publish">>,
                 None, FALSE, FALSE)

RECURSIVE SplitLinesKeepEnds(_)
\* content.splitlines(keepends=True), for a text whose only line separator
\* is "\n": every line keeps its separator; the empty text has no line.
SplitLinesKeepEnds(text) ==
    IF text = <<>> THEN <<>>
    ELSE LET nls == {i \in 1..Len(text) : text[i] = NL}
         IN  IF nls = {} THEN <<text>>
             ELSE LET i == Least(nls)
                  IN  <<SubSeq(text, 1, i)>>
                          \o SplitLinesKeepEnds(SubSeq(text, i + 1, Len(text)))

\* formatting (server.py:142-185).
formatting(uri, ws, flt) ==
    IF ~EndsWith(uri, CgxSuffix)
    THEN \* lines 150-152
         Outcome(<<>>, <<>>, <<>>, FALSE, FALSE)
    ELSE IF flt = "lookup"
    THEN Outcome(<<>>, <<"get_text_document">>, <<>>, FALSE, TRUE)
    ELSE IF flt = "format"
    THEN Outcome(<<>>, <<"get_text_document", "format">>, <<>>, FALSE, TRUE)
    ELSE LET content == ws[uri]
             formatted_content == format_cgx_content(content)
             lines == SplitLinesKeepEnds(content)
             last_line == Len(lines) - 1
             last_char == IF lines # <<>> THEN Len(lines[Len(lines)]) ELSE 0
         IN  IF formatted_content = content
             THEN \* lines 162-164
                  Outcome(<<>>, <<"get_text_document", "format">>, <<>>, FALSE, FALSE)
             ELSE IF last_line < 0
             THEN \* Position(line=-1) is refused by lsprotocol's uinteger
                  \* validator: lines 183-185
                  Outcome(<<>>, <<"get_text_document", "format">>, <<>>, FALSE, TRUE)
             ELSE Outcome(<<>>, <<"get_text_document", "format">>,
                          <<[range |-> [start |-> [line |-> 0, character |-> 0],
                                        end |-> [line |-> last_line,
                                                 character |-> last_char]],
                             new_text |-> formatted_content]>>,
                          FALSE, FALSE)

\* semantic_tokens_full (server.py:195-227).
semantic_tokens_full(uri, ws, flt) ==
    IF ~EndsWith(uri, CgxSuffix)
    THEN Outcome(<<>>, <<>>, [data |-> <<>>], FALSE, FALSE)
    ELSE IF flt = "lookup"
    THEN Outcome(<<>>, <<"get_text_document">>, [data |-> <<>>], FALSE, TRUE)
    ELSE IF flt = "tokens"
    THEN Outcome(<<>>, <<"get_text_document", "get_tokens">>, [data |-> <<>>],
                 FALSE, TRUE)
    ELSE Outcome(<<>>, <<"get_text_document", "get_tokens", "encode_tokens">>,
                 [data |-> encode_tokens(get_tokens(ws[uri]))], FALSE, FALSE)

(***************************************************************************)
(* The documents and positions the classifier is applied to.  A document   *)
(* is  pre open1 content1 close1 mid open2 content2 close2, every part     *)
(* optional, so that it holds no, one or two tag pairs, unterminated and   *)
(* repeated opening tags, upper-case tags and tags with attributes.        *)
(***************************************************************************)
Pres == {<<>>, <<"x", NL>>}
Opens1 == {<<>>, OpenTagPlain, OpenTagAttr, OpenTagUpper}
Contents1 == {<<>>, <<"x">>, <<NL>>, <<"x", NL, "y">>}
Closes1 == {<<>>, CloseTagPlain, CloseTagUpper}
Mids == {<<>>, <<"<", "t", GT>>, <<NL>>}
Opens2 == {<<>>, OpenTagPlain}
Contents2 == {<<>>, <<"x">>, <<NL>>}
Closes2 == {<<>>, CloseTagPlain}

Texts ==
    {p \o o1 \o c1 \o e1 \o m \o o2 \o c2 \o e2 :
        p \in Pres, o1 \in Opens1, c1 \in Contents1, e1 \in Closes1,
        m \in Mids, o2 \in Opens2, c2 \in Contents2, e2 \in Closes2}

Positions == [line : 0..MaxLine, character : 0..MaxChar]

(***************************************************************************)
(* The state machine: a caller picks a document and a position and calls   *)
(* analyze_context or position_to_offset.                                  *)
(***************************************************************************)
CompletionIdle ==
    /\ tmpFiles = {}
    /\ created = 0
    /\ fault = "none"
    /\ items = NoItems
    /\ raised = FALSE

NotConverted == <<[converted |-> FALSE]>>

ConversionIdle ==
    /\ diagnostics = <<>>
    /\ lsp_diagnostics = NotConverted

NoEvent ==
    [kind |-> "none", uri |-> <<>>, fault |-> "none",
     out |-> Outcome(<<>>, <<>>, None, FALSE, FALSE)]

ServerIdle ==
    /\ workspace = [u \in Uris |-> Absent]
    /\ published = [u \in Uris |-> Never]
    /\ failed = {}
    /\ last = NoEvent

Init ==
    /\ source \in Texts
    /\ position \in {p \in Positions : p.character <= Len(source) + 1}
    /\ context = NoContext
    /\ offset = -1
    /\ pc = "start"
    /\ CompletionIdle
    /\ ServerIdle
    /\ ConversionIdle

\* A caller classifies the position.
AnalyzeContext ==
    /\ pc = "start"
    /\ context' = analyze_context(source, position)
    /\ pc' = "analyzed"
    /\ UNCHANGED <<source, position, offset, completionVars, serverVars, conversionVars>>

\* A caller converts the position alone.
PositionToOffset ==
    /\ pc = "start"
    /\ offset' = position_to_offset(source, position)
    /\ pc' = "converted"
    /\ UNCHANGED <<source, position, context, completionVars, serverVars, conversionVars>>

Next ==
    \/ AnalyzeContext
    \/ PositionToOffset

Spec == Init /\ [][Next]_vars

(***************************************************************************)
(* The completion pipeline: a caller classifies the position and hands the *)
(* context to get_python_completions, up to MaxCalls times.                *)
(***************************************************************************)
CompletionTexts ==
    {OpenTagPlain \o c \o CloseTagPlain : c \in Contents1}
        \cup {<<"x">>, <<"x", NL>> \o OpenTagPlain \o <<"x">> \o CloseTagPlain,
              OpenTagPlain \o <<"x">>}

InitCompletions ==
    /\ source \in CompletionTexts
    /\ position \in {p \in Positions : p.character <= Len(source) + 1}
    /\ context = NoContext
    /\ offset = -1
    /\ pc = "start"
    /\ CompletionIdle
    /\ ServerIdle
    /\ ConversionIdle

GetPythonCompletions ==
    /\ pc \in {"analyzed", "completed"}
    /\ created < MaxCalls
    /\ \E flt \in Faults, answer \in EngineAnswers :
           LET out == get_python_completions(context, flt, answer, tmpFiles, created)
           IN  /\ fault' = flt
               /\ items' = out.items
               /\ raised' = out.raised
               /\ tmpFiles' = out.files
               \* a file is created unless the call returns early or
               \* NamedTemporaryFile itself fails
               /\ created' = IF context.is_python_code /\ flt # "tmp_create"
                              THEN created + 1 ELSE created
    /\ pc' = "completed"
    /\ UNCHANGED <<source, position, context, offset, serverVars, conversionVars>>

NextCompletions ==
    \/ AnalyzeContext
    \/ GetPythonCompletions

SpecCompletions == InitCompletions /\ [][NextCompletions]_vars

(***************************************************************************)
(* The server: a client opens, changes, saves and closes documents and     *)
(* asks for formatting and semantic tokens, as the protocol allows (a      *)
(* document is opened before it is used and closed once).  pygls stores    *)
(* the text of an opened or changed document in the workspace, and drops a *)
(* closed one, before the handler of server.py runs.                       *)
(***************************************************************************)
InitServer ==
    /\ source = <<>>
    /\ position = [line |-> 0, character |-> 0]
    /\ context = NoContext
    /\ offset = -1
    /\ pc = "idle"
    /\ CompletionIdle
    /\ ServerIdle
    /\ ConversionIdle

\* The server's state after a handler with outcome out ran for uri.
Handled(kind, uri, flt, out, ws) ==
    /\ workspace' = ws
    /\ published' = IF out.publish = <<>> THEN published
                    ELSE [published EXCEPT ![out.publish[1].uri] =
                                               out.publish[1].diagnostics]
    /\ failed' = IF out.logged \/ out.escaped THEN failed \cup {uri}
                 ELSE IF out.publish # <<>> THEN failed \ {uri}
                 ELSE failed
    /\ last' = [kind |-> kind, uri |-> uri, fault |-> flt, out |-> out]
    /\ UNCHANGED <<regionVars, completionVars, conversionVars>>

\* The failures a handler can meet for uri: a handler that returns at its
\* file-kind check calls no collaborator, so none can fail.
FaultsFor(uri, faults) == IF EndsWith(uri, CgxSuffix) THEN faults ELSE {"none"}

ValidateFaults == {"none", "lookup", "lint", "publish"}

DidOpen ==
    \E uri \in Uris, text \in DocTexts :
      \E flt \in FaultsFor(uri, ValidateFaults) :
        /\ workspace[uri] = Absent
        /\ LET ws == [workspace EXCEPT ![uri] = text]
           IN  Handled("did_open", uri, flt, validate_document(uri, ws, flt), ws)

DidChange ==
    \E uri \in Uris, text \in DocTexts :
      \E flt \in FaultsFor(uri, ValidateFaults) :
        /\ workspace[uri] # Absent
        /\ LET ws == [workspace EXCEPT ![uri] = text]
           IN  Handled("did_change", uri, flt, validate_document(uri, ws, flt), ws)

DidSave ==
    \E uri \in Uris :
      \E flt \in FaultsFor(uri, ValidateFaults) :
        /\ workspace[uri] # Absent
        /\ Handled("did_save", uri, flt,
                   validate_document(uri, workspace, flt), workspace)

DidClose ==
    \E uri \in Uris, flt \in {"none", "publish"} :
        /\ workspace[uri] # Absent
        /\ Handled("did_close", uri, flt, did_close(uri, flt),
                   [workspace EXCEPT ![uri] = Absent])

Formatting ==
    \E uri \in Uris :
      \E flt \in FaultsFor(uri, {"none", "lookup", "format"}) :
        /\ workspace[uri] # Absent
        /\ Handled("formatting", uri, flt,
                   formatting(uri, workspace, flt), workspace)

SemanticTokensFull ==
    \E uri \in Uris :
      \E flt \in FaultsFor(uri, {"none", "lookup", "tokens"}) :
        /\ workspace[uri] # Absent
        /\ Handled("semantic_tokens_full", uri, flt,
                   semantic_tokens_full(uri, workspace, flt), workspace)

NextServer ==
    \/ DidOpen
    \/ DidChange
    \/ DidSave
    \/ DidClose
    \/ Formatting
    \/ SemanticTokensFull

SpecServer == InitServer /\ [][NextServer]_vars

(***************************************************************************)
(* The conversion loop of validate_document (server.py:87-99) on what any  *)
(* linter may report: up to MaxDiags diagnostics, each with a severity of  *)
(* the closed set or another string.                                       *)
(***************************************************************************)
SeverityInputs == {"error", "warning", "info", "hint", "fatal", "Error"}

\* The linter's record for the n-th diagnostic, with severity sev.
LinterDiagnostic(n, sev) ==
    [line |-> n - 1, column |-> 0, end_line |-> n - 1, end_column |-> 1,
     message |-> "m", severity |-> sev, code |-> "E", source |-> "ruff-cgx"]

LinterReports ==
    UNION {{[n \in 1..k |-> LinterDiagnostic(n, sevs[n])] :
               sevs \in [1..k -> SeverityInputs]} : k \in 0..MaxDiags}

InitConversion ==
    /\ source = <<>>
    /\ position = [line |-> 0, character |-> 0]
    /\ context = NoContext
    /\ offset = -1
    /\ pc = "idle"
    /\ CompletionIdle
    /\ ServerIdle
    /\ diagnostics \in LinterReports
    /\ lsp_diagnostics = NotConverted

ConvertDiagnostics ==
    /\ lsp_diagnostics = NotConverted
    /\ lsp_diagnostics' = ToLspDiagnostics(diagnostics)
    /\ UNCHANGED <<diagnostics, regionVars, completionVars, serverVars>>

NextConversion == ConvertDiagnostics

SpecConversion == InitConversion /\ [][NextConversion]_vars

(***************************************************************************)
(* How a document is read by eye: where its tags stand.  These locate the  *)
(* tags by plain substring search, independently of the pattern matcher.   *)
(***************************************************************************)
\* The 0-based offsets at which lit occurs in text.
Occurrences(text, lit) ==
    {o \in 0..(Len(text) - 1) : StartsWithAt(text, o + 1, lit)}

\* The 0-based offset of the first ">" at or after offset o, or -1.
FirstGtFrom(text, o) ==
    LET gts == {g \in o..(Len(text) - 1) : text[g + 1] = GT}
    IN  IF gts = {} THEN -1 ELSE Least(gts)

\* The one element of a singleton set.
TheOne(S) == CHOOSE x \in S : TRUE

\* The offset after the ">" of the opening tag that starts at offset o.
ContentStart(text, o) == FirstGtFrom(text, o + Len(OpenLiteral)) + 1

\* The text holds exactly one <script ...>...</script> pair: one opening
\* tag, whose ">" stands before the one closing tag.
OnePair(text) ==
    LET os == Occurrences(text, OpenLiteral)
        cs == Occurrences(text, CloseLiteral)
    IN  /\ Cardinality(os) = 1
        /\ Cardinality(cs) = 1
        /\ FirstGtFrom(text, TheOne(os) + Len(OpenLiteral)) # -1
        /\ ContentStart(text, TheOne(os)) <= TheOne(cs)

\* The content offsets [s, e) of the pair of a OnePair text.
PairS(text) == ContentStart(text, TheOne(Occurrences(text, OpenLiteral)))
PairE(text) == TheOne(Occurrences(text, CloseLiteral))

\* The offset the classified position has.
Off == position_to_offset(source, position)

Analyzed == pc = "analyzed"

(***************************************************************************)
(* C1, as stated: with exactly one pair of content [s, e), a position is   *)
(* inside for every offset in [s, e], and outside at the offset s-1 and at *)
(* the offset of the closing tag's first character, which is e itself.     *)
(* Stated for a pair with non-empty content, where s and e differ.         *)
(***************************************************************************)
C1_AsStated ==
    (Analyzed /\ OnePair(source) /\ PairS(source) < PairE(source)) =>
        /\ (PairS(source) <= Off /\ Off <= PairE(source))
               => context.is_python_code = TRUE
        /\ Off = PairS(source) - 1 => context.is_python_code = FALSE
        /\ Off = PairE(source) => context.is_python_code = FALSE

(***************************************************************************)
(* C1, amended: with exactly one pair of content [s, e), a position is     *)
(* inside for every offset in [s, e] (the closing tag's "<" at e           *)
(* included), and outside at the offset s-1 and at the offset e+1, the     *)
(* second character of the closing tag.                                    *)
(***************************************************************************)
C1_OnePairBoundaries ==
    (Analyzed /\ OnePair(source)) =>
        /\ (PairS(source) <= Off /\ Off <= PairE(source))
               => context.is_python_code = TRUE
        /\ Off = PairS(source) - 1 => context.is_python_code = FALSE
        /\ Off = PairE(source) + 1 => context.is_python_code = FALSE

\* A one-pair text with content, classified at the closing tag's "<": inside.
C1_Witness ==
    /\ Analyzed
    /\ OnePair(source)
    /\ PairS(source) < PairE(source)
    /\ Off = PairE(source)
    /\ context.is_python_code = TRUE

(***************************************************************************)
(* C2: for a text with no closing tag and any position, analyze_context    *)
(* returns a context, and its is_python_code is false: an unterminated     *)
(* opening tag is never closed at the end of the text.                     *)
(***************************************************************************)
NoClosingTag(text) == Occurrences(text, CloseLiteral) = {}

C2_UnterminatedNotEmbedded ==
    (Analyzed /\ NoClosingTag(source)) =>
        /\ context.is_python_code = FALSE
        /\ context.full_source = source
        /\ context.original_position = position

\* An unterminated opening tag, classified at a position after its ">" and
\* within the text.
C2_Witness ==
    /\ Analyzed
    /\ NoClosingTag(source)
    /\ Occurrences(source, OpenLiteral) # {}
    /\ \E o \in Occurrences(source, OpenLiteral) :
           /\ ContentStart(source, o) > 0
           /\ ContentStart(source, o) <= Off
    /\ Off < Len(source)
    /\ context.is_python_code = FALSE

(***************************************************************************)
(* C3: with two disjoint pairs, a position is inside for every offset in   *)
(* the content of either pair, outside for every offset between the end of *)
(* the first closing tag and the start of the second opening tag, and the  *)
(* first region does not reach beyond its own closing tag.                 *)
(***************************************************************************)
\* The text holds exactly two pairs, one after the other.
TwoPairs(text) ==
    LET os == Occurrences(text, OpenLiteral)
        cs == Occurrences(text, CloseLiteral)
    IN  /\ Cardinality(os) = 2
        /\ Cardinality(cs) = 2
        /\ FirstGtFrom(text, Least(os) + Len(OpenLiteral)) # -1
        /\ ContentStart(text, Least(os)) <= Least(cs)
        /\ Least(cs) + Len(CloseLiteral) <= Greatest(os)
        /\ ContentStart(text, Greatest(os)) <= Greatest(cs)

S1(text) == ContentStart(text, Least(Occurrences(text, OpenLiteral)))
E1(text) == Least(Occurrences(text, CloseLiteral))
O2(text) == Greatest(Occurrences(text, OpenLiteral))
S2(text) == ContentStart(text, O2(text))
E2(text) == Greatest(Occurrences(text, CloseLiteral))

C3_TwoIndependentRegions ==
    (Analyzed /\ TwoPairs(source)) =>
        /\ (S1(source) <= Off /\ Off <= E1(source))
               => context.is_python_code = TRUE
        /\ (S2(source) <= Off /\ Off <= E2(source))
               => context.is_python_code = TRUE
        /\ (E1(source) + Len(CloseLiteral) <= Off /\ Off < O2(source))
               => context.is_python_code = FALSE
        /\ (E1(source) < Off /\ Off < S2(source))
               => context.is_python_code = FALSE

\* Two pairs with markup between them, classified on that markup: outside.
C3_Witness ==
    /\ Analyzed
    /\ TwoPairs(source)
    /\ E1(source) + Len(CloseLiteral) < O2(source)
    /\ E1(source) + Len(CloseLiteral) <= Off
    /\ Off < O2(source)
    /\ context.is_python_code = FALSE

(***************************************************************************)
(* C4, as stated: the offsets classified as inside are those of the        *)
(* content, [s, e], whether the one pair of the text is written            *)
(* <script>...</script>, <script attr>...</script> or <SCRIPT>...</SCRIPT>.*)
(***************************************************************************)
\* The text holds exactly one pair written with the literals ol and cl.
OnePairOf(text, ol, cl) ==
    LET os == Occurrences(text, ol)
        cs == Occurrences(text, cl)
    IN  /\ Cardinality(os) = 1
        /\ Cardinality(cs) = 1
        /\ FirstGtFrom(text, TheOne(os) + Len(ol)) # -1
        /\ FirstGtFrom(text, TheOne(os) + Len(ol)) + 1 <= TheOne(cs)

PairSOf(text, ol) == FirstGtFrom(text, TheOne(Occurrences(text, ol)) + Len(ol)) + 1
PairEOf(text, cl) == TheOne(Occurrences(text, cl))

\* The one pair of the text is written in lower case, with or without
\* attributes, and the text holds no upper-case tag.
LowerPairOnly(text) ==
    /\ OnePairOf(text, OpenLiteral, CloseLiteral)
    /\ Occurrences(text, OpenLiteralUpper) = {}
    /\ Occurrences(text, CloseLiteralUpper) = {}

\* The one pair of the text is written in upper case, and the text holds no
\* lower-case tag.
UpperPairOnly(text) ==
    /\ OnePairOf(text, OpenLiteralUpper, CloseLiteralUpper)
    /\ Occurrences(text, OpenLiteral) = {}
    /\ Occurrences(text, CloseLiteral) = {}

C4_AsStated ==
    Analyzed =>
        /\ LowerPairOnly(source) =>
               (context.is_python_code =
                   (PairSOf(source, OpenLiteral) <= Off
                       /\ Off <= PairEOf(source, CloseLiteral)))
        /\ UpperPairOnly(source) =>
               (context.is_python_code =
                   (PairSOf(source, OpenLiteralUpper) <= Off
                       /\ Off <= PairEOf(source, CloseLiteralUpper)))

\* The part of C4 the code keeps: attributes on a lower-case opening tag
\* only shift the content.
C4_AttributeInsensitive ==
    (Analyzed /\ LowerPairOnly(source)) =>
        (context.is_python_code =
            (PairSOf(source, OpenLiteral) <= Off
                /\ Off <= PairEOf(source, CloseLiteral)))

(***************************************************************************)
(* Where a position stands in the flat text, read off the text's line      *)
(* separators without splitting it.                                        *)
(***************************************************************************)
\* The 0-based offsets of the text's line separators.
Newlines(text) == {o \in 0..(Len(text) - 1) : text[o + 1] = NL}

NumLines(text) == Cardinality(Newlines(text)) + 1

\* The offset at which line n (0-based, n < NumLines) starts.
LineStart(text, n) ==
    IF n = 0 THEN 0
    ELSE 1 + CHOOSE o \in Newlines(text) :
                 Cardinality({h \in Newlines(text) : h < o}) = n - 1

\* The offset at which line n ends: its separator's, or the text's end.
LineEnd(text, n) ==
    LET later == {o \in Newlines(text) : o >= LineStart(text, n)}
    IN  IF later = {} THEN Len(text) ELSE Least(later)

WithinBounds(text, pos) ==
    /\ pos.line < NumLines(text)
    /\ pos.character <= LineEnd(text, pos.line) - LineStart(text, pos.line)

Converted == pc = "converted"

(***************************************************************************)
(* C5: for a position within the text's bounds, position_to_offset returns *)
(* the lengths of the lines before position.line, each plus one for its    *)
(* separator, plus position.character: (0,0) maps to 0, and the offset     *)
(* stands in line position.line, position.character after that line's     *)
(* start, at or before that line's end.                                    *)
(***************************************************************************)
C5_OffsetDenotesPosition ==
    (Converted /\ WithinBounds(source, position)) =>
        /\ offset = LineStart(source, position.line) + position.character
        /\ (position.line = 0 /\ position.character = 0) => offset = 0
        /\ Cardinality({o \in Newlines(source) : o < offset}) = position.line
        /\ offset <= LineEnd(source, position.line)
        /\ offset <= Len(source)

\* A position within bounds, on a later line and after the line's start.
C5_Witness ==
    /\ Converted
    /\ WithinBounds(source, position)
    /\ position.line >= 1
    /\ position.character >= 1
    /\ offset = LineStart(source, position.line) + position.character

(***************************************************************************)
(* C6, as stated: for a position whose line is past the text's lines or    *)
(* whose character is past its line's end, position_to_offset clamps: the  *)
(* offset stays within the text, and a character past the end of its line  *)
(* does not run over into a following line.                                *)
(***************************************************************************)
C6_AsStated ==
    (Converted /\ ~WithinBounds(source, position)) =>
        /\ 0 <= offset
        /\ offset <= Len(source)
        /\ position.line < NumLines(source)
               => offset <= LineEnd(source, position.line)

(***************************************************************************)
(* C7: for a context classified as embedded-language, a failure of         *)
(* construct_ast, of ast.unparse or of the completion engine makes         *)
(* get_python_completions return the empty list, and nothing is raised.    *)
(***************************************************************************)
Completed == pc = "completed"

IsCgx(uri) == EndsWith(uri, CgxSuffix)

Validating == {"did_open", "did_change", "did_save"}

LintResult(text) == ToLspDiagnostics(lint_cgx_content(text))

(***************************************************************************)
(* C8: an opened, changed or saved event for a .cgx document re-runs the   *)
(* linter on the document's current text and publishes the result for that *)
(* URI, so that the diagnostics most recently published for an open        *)
(* document are the lint result of its latest text; a closed event         *)
(* publishes an empty set for the URI.  This is the course of an event     *)
(* whose collaborators do not raise; an event that meets a failure of the  *)
(* lookup, the linter or the publish publishes nothing and is logged, and  *)
(* the document counts as failed until its next successful run.            *)
(***************************************************************************)
C8_RevalidationPublishesLatest ==
    \A u \in Uris : IsCgx(u) =>
        /\ (workspace[u] # Absent /\ u \notin failed)
               => published[u] = LintResult(workspace[u])
        /\ (last.kind \in Validating /\ last.uri = u) =>
               IF last.fault = "none"
               THEN /\ last.out.publish =
                           <<[uri |-> u, diagnostics |-> LintResult(workspace[u])]>>
                    /\ published[u] = LintResult(workspace[u])
                    /\ u \notin failed
               ELSE /\ last.out.publish = <<>>
                    /\ last.out.logged
                    /\ u \in failed
        /\ (last.kind = "did_close" /\ last.uri = u) =>
               IF last.fault = "none"
               THEN /\ last.out.publish = <<[uri |-> u, diagnostics |-> <<>>]>>
                    /\ published[u] = <<>>
               ELSE last.out.publish = <<>>

\* A changed event whose text lints clean, after diagnostics were published
\* for the document: the empty lint result replaces them.
C8_Witness ==
    /\ last.kind = "did_change"
    /\ IsCgx(last.uri)
    /\ last.fault = "none"
    /\ workspace[last.uri] # Absent
    /\ LintResult(workspace[last.uri]) = <<>>
    /\ published[last.uri] = <<>>
    /\ last.out.publish = <<[uri |-> last.uri, diagnostics |-> <<>>]>>

(***************************************************************************)
(* C9, as stated: for a URI that does not end in .cgx no event and no      *)
(* request reads the document, calls a collaborator or publishes           *)
(* diagnostics, and the requests return their empty result without error.  *)
(* Stated for events during which no collaborator would raise.             *)
(***************************************************************************)
C9_AsStated ==
    (last.kind # "none" /\ ~IsCgx(last.uri) /\ last.fault = "none") =>
        /\ last.out.calls = <<>>
        /\ last.out.publish = <<>>
        /\ ~last.out.escaped
        /\ ~last.out.logged
        /\ last.kind = "formatting" => last.out.result = <<>>
        /\ last.kind = "semantic_tokens_full" => last.out.result = [data |-> <<>>]
        /\ published[last.uri] = Never

(***************************************************************************)
(* C10, as stated: a formatting request for a .cgx document whose          *)
(* collaborators do not fail returns no edit when the formatter's output   *)
(* equals the text, and otherwise exactly one edit, whose new text is the  *)
(* formatter's output and whose range runs from (0,0) to the position of   *)
(* the end of the text.                                                    *)
(***************************************************************************)
\* The position of the end of the text: the line after the last separator,
\* and the number of characters on it.
EndPosition(text) ==
    [line |-> NumLines(text) - 1,
     character |-> Len(text) - LineStart(text, NumLines(text) - 1)]

C10_AsStated ==
    (last.kind = "formatting" /\ IsCgx(last.uri) /\ last.fault = "none") =>
        LET content == workspace[last.uri]
        IN  IF format_cgx_content(content) = content
            THEN last.out.result = <<>>
            ELSE last.out.result =
                     <<[range |-> [start |-> [line |-> 0, character |-> 0],
                                   end |-> EndPosition(content)],
                        new_text |-> format_cgx_content(content)]>>

\* The part of C10 the code keeps: no edit for an unchanged text, and for a
\* text that does not end with a line separator one edit over the whole
\* text.
C10_NoTrailingSeparator ==
    (/\ last.kind = "formatting" /\ IsCgx(last.uri) /\ last.fault = "none"
     /\ (workspace[last.uri] = <<>>
            \/ workspace[last.uri][Len(workspace[last.uri])] # NL)) =>
        LET content == workspace[last.uri]
        IN  IF format_cgx_content(content) = content
            THEN last.out.result = <<>>
            ELSE last.out.result =
                     <<[range |-> [start |-> [line |-> 0, character |-> 0],
                                   end |-> EndPosition(content)],
                        new_text |-> format_cgx_content(content)]>>

(***************************************************************************)
(* C11: _severity_to_lsp is total: every diagnostic the loop converts gets *)
(* a severity, which is Error, Warning, Information or Hint for "error",   *)
(* "warning", "info" and "hint", and Warning for every other string.       *)
(***************************************************************************)
ConvertedDiagnostics == lsp_diagnostics # NotConverted

C11_SeverityTotalDefaultWarning ==
    ConvertedDiagnostics =>
        /\ Len(lsp_diagnostics) = Len(diagnostics)
        /\ \A n \in 1..Len(diagnostics) :
               LET sev == diagnostics[n].severity
                   lsp == lsp_diagnostics[n].severity
               IN  /\ lsp \in {"Error", "Warning", "Information", "Hint"}
                   /\ sev = "error" => lsp = "Error"
                   /\ sev = "warning" => lsp = "Warning"
                   /\ sev = "info" => lsp = "Information"
                   /\ sev = "hint" => lsp = "Hint"
                   /\ sev \notin {"error", "warning", "info", "hint"}
                          => lsp = "Warning"

\* A converted report that holds a severity outside the closed set, mapped
\* to Warning, next to an "error" mapped to Error.
C11_Witness ==
    /\ ConvertedDiagnostics
    /\ \E n \in 1..Len(diagnostics) :
           /\ diagnostics[n].severity = "fatal"
           /\ lsp_diagnostics[n].severity = "Warning"
    /\ \E n \in 1..Len(diagnostics) :
           /\ diagnostics[n].severity = "error"
           /\ lsp_diagnostics[n].severity = "Error"

(***************************************************************************)
(* C12: the temporary file of get_python_completions is released on every  *)
(* exit path: after a call that created the file has returned or raised,   *)
(* whatever failed on the way, that file no longer exists.                 *)
(***************************************************************************)
CreatedFile == created - 1

CallCreatedFile ==
    /\ Completed
    /\ context.is_python_code = TRUE
    /\ fault # "tmp_create"

C12_AsStated == CallCreatedFile => CreatedFile \notin tmpFiles

\* What the code does guarantee: the file is gone unless writing the
\* document into it failed, and nothing but such a write leaves a file.
C12_ReleasedUnlessWriteFails ==
    /\ (CallCreatedFile /\ fault # "tmp_write") => CreatedFile \notin tmpFiles
    /\ (CallCreatedFile /\ fault = "tmp_write") =>
           (CreatedFile \in tmpFiles /\ raised = TRUE)

(***************************************************************************)
(* C13: in every handler a failure raised by a collaborator call (the      *)
(* workspace lookup, the linter, the formatter, the token provider, the    *)
(* diagnostics publish) is caught inside the handler: no exception escapes *)
(* to the dispatcher, and the handler publishes nothing.                   *)
(***************************************************************************)
CollaboratorFailed == last.kind # "none" /\ last.fault # "none"

C13_AsStated ==
    CollaboratorFailed =>
        /\ last.out.escaped = FALSE
        /\ last.out.publish = <<>>

\* What the code does guarantee: the five handlers with a try block catch
\* and log the failure and return their empty result; did_close lets it
\* escape.
C13_GuardedHandlersCatch ==
    /\ (CollaboratorFailed /\ last.kind # "did_close") =>
           /\ last.out.escaped = FALSE
           /\ last.out.logged = TRUE
           /\ last.out.publish = <<>>
           /\ last.kind \in Validating => last.out.result = None
           /\ last.kind = "formatting" => last.out.result = <<>>
           /\ last.kind = "semantic_tokens_full"
                  => last.out.result = [data |-> <<>>]
    /\ (CollaboratorFailed /\ last.kind = "did_close") =>
           /\ last.out.escaped = TRUE
           /\ last.out.logged = FALSE

(***************************************************************************)
(* C14: tag markup is never region content: in any text, no offset on the  *)
(* characters of an opening <script ...> tag, from its "<" through its     *)
(* ">", is classified as inside a region.                                  *)
(***************************************************************************)
\* The offsets of the opening tags of text: the "<script" occurrences that
\* have a ">" after them.
OpeningTags(text) ==
    {o \in Occurrences(text, OpenLiteral) :
        FirstGtFrom(text, o + Len(OpenLiteral)) # -1}

OnOpeningTag(text, off) ==
    \E o \in OpeningTags(text) :
        o <= off /\ off <= FirstGtFrom(text, o + Len(OpenLiteral))

C14_AsStated ==
    (/\ Analyzed
     /\ WithinBounds(source, position)
     /\ OnOpeningTag(source, Off)) => context.is_python_code = FALSE

\* What the code does guarantee: in a text of one or two opening tags that
\* each have their own closing tag, no offset on an opening tag is inside.
C14_PairedTagsOutside ==
    (/\ Analyzed
     /\ OnePair(source) \/ TwoPairs(source)
     /\ OnOpeningTag(source, Off)) => context.is_python_code = FALSE

====
